---- MODULE Spec2Model ----
(***************************************************************************)
(* Field descriptors of tavi (tavi/fields.py): typed fields layered on     *)
(* tavi.base.fields.BaseField, validating into a per-instance Errors       *)
(* collection.  The source is Python 2 (basestring, unicode,               *)
(* collections.MutableSequence), so truthiness, isinstance and mixed-type  *)
(* ordering follow Python 2.                                               *)
(***************************************************************************)
EXTENDS Integers, Sequences, FiniteSets, TLC

VARIABLES
    field,      \* the descriptor declared on the document class (constructor result)
    idict,      \* instance.__dict__ slot of the field: [has, v]
    errors,     \* instance.errors: the messages held for the field, in order
    lastOp,     \* the operation performed last
    lastArg,    \* its argument
    lastInst,   \* the document instance it went through
    ret,        \* what the last get returned
    raised,     \* whether the last operation raised an exception
    validated,  \* whether validate(instance, value) was ever called explicitly
    lastSet,    \* the argument of the last assignment that stored something
    setInst,    \* the document instance the last such assignment went through
    owned,      \* EmbeddedField.value (descriptor level)
    heap,       \* objects by identity: embedded documents and EmbeddedList containers
    ldict,      \* per instance: the ListField slot of instance.__dict__
    got,        \* per instance: what get returned since the last change, or Stale
    firstGot,   \* per instance: what the first get returned
    cleared     \* whether a falsy value was ever assigned to the EmbeddedField

vars == <<field, idict, errors, lastOp, lastArg, lastInst, ret, raised, validated,
          lastSet, setInst, owned, heap, ldict, got, firstGot, cleared>>

(***************************************************************************)
(* Bounds of the model.                                                    *)
(***************************************************************************)
MaxNum == 2        \* integers range over -1 .. MaxNum, floats over halves of them
MaxObjects == 2    \* objects allocated after construction
MaxItems == 2      \* items appended to one EmbeddedList

(***************************************************************************)
(* Python values: [k: kind, n: number, s: characters or items].            *)
(* A float holds n halves (value n/2); bool holds 0 or 1; str/unicode hold *)
(* their characters; list/tuple hold their items.                          *)
(***************************************************************************)
V(k, n, s) == [k |-> k, n |-> n, s |-> s]
None == V("none", 0, <<>>)
PyInt(n) == V("int", n, <<>>)
PyFloat(h) == V("float", h, <<>>)
PyBool(b) == V("bool", IF b THEN 1 ELSE 0, <<>>)
PyText(s) == V("str", 0, s)
PyList(s) == V("list", 0, s)
PyTuple(s) == V("tuple", 0, s)
PyDateTime == V("datetime", 0, <<>>)
PyObjectId(s) == V("oid", 0, s)
PyDoc(i) == V("doc", i, <<>>)
Ref(i) == V("ref", i, <<>>)

HexId == <<"5","0","a","b","c","d","e","f","0","1","2","3",
           "5","0","a","b","c","d","e","f","0","1","2","3">>

IsNumber(v) == v.k \in {"int", "float", "bool"}
IsInt(v) == v.k \in {"int", "bool"}          \* isinstance(v, int): bool is an int
IsText(v) == v.k = "str"                     \* isinstance(v, basestring)
IsSized(v) == v.k \in {"str", "list", "tuple"}
IsIterable(v) == v.k \in {"str", "list", "tuple"}

\* bool(v)
Truthy(v) ==
    CASE v.k = "none" -> FALSE
      [] v.k \in {"int", "float", "bool"} -> v.n # 0
      [] v.k \in {"str", "list", "tuple"} -> v.s # <<>>
      [] OTHER -> TRUE

\* number of halves of a numeric value
Halves(v) == IF v.k = "float" THEN v.n ELSE 2 * v.n

\* float(v) and int(v) of a number (int truncates towards zero)
ToFloat(v) == PyFloat(Halves(v))
ToInt(v) ==
    IF v.k = "float"
    THEN PyInt(IF v.n >= 0 THEN v.n \div 2 ELSE -((-v.n) \div 2))
    ELSE PyInt(v.n)

\* Python 2 ordering rank of a kind in a mixed comparison: None first, then
\* numbers, then the other types by type name
Rank(v) ==
    CASE v.k = "none" -> 0
      [] IsNumber(v) -> 1
      [] v.k = "oid" -> 2
      [] v.k = "doc" -> 3
      [] v.k = "ref" -> 3
      [] v.k = "list" -> 4
      [] v.k = "str" -> 5
      [] v.k = "tuple" -> 6
      [] OTHER -> 7

\* x < y in Python 2: "T", "F", or "raise" (datetime refuses other types)
PyLt(x, y) ==
    IF IsNumber(x) /\ IsNumber(y)
    THEN (IF Halves(x) < Halves(y) THEN "T" ELSE "F")
    ELSE IF (x.k = "datetime") # (y.k = "datetime") /\ x.k # "none" /\ y.k # "none"
    THEN "raise"
    ELSE IF Rank(x) < Rank(y) THEN "T" ELSE "F"

PyGt(x, y) == PyLt(y, x)

\* len(v): a number, or "raise" for a value without a length
PyLen(v) == IF IsSized(v) THEN PyInt(Len(v.s)) ELSE V("raise", 0, <<>>)

(***************************************************************************)
(* Text conversions.                                                       *)
(***************************************************************************)
Digit(d) == <<"0","1","2","3","4","5","6","7","8","9">>[d + 1]

RECURSIVE NatStr(_)
NatStr(n) == IF n < 10 THEN <<Digit(n)>> ELSE NatStr(n \div 10) \o <<Digit(n % 10)>>

IntStr(n) == IF n < 0 THEN <<"-">> \o NatStr(-n) ELSE NatStr(n)

FloatStr(h) ==
    LET m == IF h < 0 THEN -h ELSE h
    IN (IF h < 0 THEN <<"-">> ELSE <<>>) \o NatStr(m \div 2)
         \o <<".", IF m % 2 = 0 THEN "0" ELSE "5">>

RECURSIVE ItemsRepr(_)
ItemsRepr(items) ==
    IF items = <<>> THEN <<>>
    ELSE <<"'", Head(items), "'">>
         \o (IF Tail(items) = <<>> THEN <<>> ELSE <<",", " ">> \o ItemsRepr(Tail(items)))

\* str(v) of a value that is not a basestring
PyStr(v) ==
    CASE v.k = "int" -> IntStr(v.n)
      [] v.k = "bool" -> (IF v.n = 1 THEN <<"T","r","u","e">> ELSE <<"F","a","l","s","e">>)
      [] v.k = "float" -> FloatStr(v.n)
      [] v.k = "list" -> <<"[">> \o ItemsRepr(v.s) \o <<"]">>
      [] v.k = "tuple" ->
            <<"(">> \o ItemsRepr(v.s) \o (IF Len(v.s) = 1 THEN <<",">> ELSE <<>>) \o <<")">>
      [] v.k = "oid" -> v.s
      [] v.k = "datetime" -> <<"2","0","0","0","-","0","1","-","0","1",
                               " ","0","0",":","0","0",":","0","0">>
      [] v.k = "none" -> <<"N","o","n","e">>
      [] OTHER -> <<"<","o","b","j","e","c","t",">">>

RECURSIVE LStrip(_)
LStrip(s) == IF s # <<>> /\ Head(s) = " " THEN LStrip(Tail(s)) ELSE s

RECURSIVE RStrip(_)
RStrip(s) ==
    IF s # <<>> /\ s[Len(s)] = " " THEN RStrip(SubSeq(s, 1, Len(s) - 1)) ELSE s

Strip(s) == RStrip(LStrip(s))


\* x == y for the values compared by the code (numbers compare by value)
PyEq(x, y) == IF IsNumber(x) /\ IsNumber(y) THEN Halves(x) = Halves(y) ELSE x = y

\* value in choices
PyIn(v, choices) == \E c \in choices : PyEq(v, c)

(***************************************************************************)
(* Errors: the messages of one field, in the order they were added.  A     *)
(* validation in progress is [e: messages, ex: an exception was raised].   *)
(***************************************************************************)
Msg(m, a) == [m |-> m, a |-> a]

Errors_add(r, m, a) == IF r.ex THEN r ELSE [r EXCEPT !.e = Append(@, Msg(m, a))]

Errors_clear(e) == <<>>

Errors_count(e) == Len(e)

\* add the message when the condition ("T", "F" or "raise") is true; a
\* condition that raises ends the validation
AddWhen(r, cond, m, a) ==
    IF r.ex THEN r
    ELSE IF cond = "raise" THEN [r EXCEPT !.ex = TRUE]
    ELSE IF cond = "T" THEN Errors_add(r, m, a)
    ELSE r

B3(b) == IF b THEN "T" ELSE "F"

Not3(c) == IF c = "T" THEN "F" ELSE IF c = "F" THEN "T" ELSE c

\* a and b, b evaluated only when a is true
AndThen(a, b) == IF a THEN b ELSE "F"

(***************************************************************************)
(* BaseField (tavi.base.fields).                                           *)
(***************************************************************************)
BaseField(variant, required, default, choices) ==
    [variant |-> variant, required |-> required, default |-> default,
     choices |-> choices, min_value |-> None, max_value |-> None,
     length |-> None, min_length |-> None, max_length |-> None,
     pattern |-> None, validate_item |-> FALSE]

BaseField_validate_noreset(f, e, value) ==
    LET r0 == [e |-> e, ex |-> FALSE]
        r1 == AddWhen(r0, B3(f.required /\ value = None), "is required", None)
    IN AddWhen(r1, B3(f.choices # {} /\ value # None /\ ~PyIn(value, f.choices)),
               "value must be in list", None)

\* validate(instance, value): the field's messages are reset, then required
\* and choices are checked
BaseField_validate(f, e, value) ==
    BaseField_validate_noreset(f, Errors_clear(e), value)

(***************************************************************************)
(* The typed fields' validate (tavi/fields.py).                            *)
(***************************************************************************)
BooleanField_validate(f, e, value) ==
    LET r0 == BaseField_validate(f, e, value)
    IN AddWhen(r0, B3(Truthy(value) /\ value.k # "bool"), "must be a valid boolean", None)

DateTimeField_validate(f, e, value) ==
    LET r0 == BaseField_validate(f, e, value)
    IN AddWhen(r0, B3(value # None /\ value.k # "datetime"),
               "must be a valid date and time", None)

FloatField(min_value, max_value, required, default, choices) ==
    [BaseField("FloatField", required, default, choices) EXCEPT
        !.min_value = IF min_value = None THEN None ELSE ToFloat(min_value),
        !.max_value = IF max_value = None THEN None ELSE ToFloat(max_value)]

\* FloatField.validate with the minimum compared by <= instead of <
FloatField_validate_le(f, e, value) ==
    LET r0 == BaseField_validate(f, e, value)
        v == IF IsInt(value) THEN ToFloat(value) ELSE value
        r1 == AddWhen(r0, B3(v.k # "float"), "must be a float", None)
        r2 == AddWhen(r1, AndThen(f.min_value # None, Not3(PyGt(v, f.min_value))),
                      "is too small (minimum is %s)", f.min_value)
        r3 == AddWhen(r2, AndThen(f.max_value # None, PyGt(v, f.max_value)),
                      "is too big (maximum is %s)", f.max_value)
    IN IF value # None THEN r3 ELSE r0

FloatField_validate(f, e, value) ==
    LET r0 == BaseField_validate(f, e, value)
        v == IF IsInt(value) THEN ToFloat(value) ELSE value
        r1 == AddWhen(r0, B3(v.k # "float"), "must be a float", None)
        r2 == AddWhen(r1, AndThen(f.min_value # None, PyLt(v, f.min_value)),
                      "is too small (minimum is %s)", f.min_value)
        r3 == AddWhen(r2, AndThen(f.max_value # None, PyGt(v, f.max_value)),
                      "is too big (maximum is %s)", f.max_value)
    IN IF value # None THEN r3 ELSE r0

IntegerField(min_value, max_value, required, default, choices) ==
    [BaseField("IntegerField", required, default, choices) EXCEPT
        !.min_value = IF min_value = None THEN None ELSE ToInt(min_value),
        !.max_value = IF max_value = None THEN None ELSE ToInt(max_value)]

\* IntegerField.validate without the call of BaseField.validate
IntegerField_validate_nosuper(f, e, value) ==
    LET r0 == [e |-> e, ex |-> FALSE]
        r1 == AddWhen(r0, B3(~IsInt(value)), "must be a integer", None)
        r2 == AddWhen(r1, AndThen(f.min_value # None, PyLt(value, f.min_value)),
                      "is too small (minimum is %s)", f.min_value)
        r3 == AddWhen(r2, AndThen(f.max_value # None, PyGt(value, f.max_value)),
                      "is too big (maximum is %s)", f.max_value)
    IN IF value # None THEN r3 ELSE r0

IntegerField_validate(f, e, value) ==
    LET r0 == BaseField_validate(f, e, value)
        r1 == AddWhen(r0, B3(~IsInt(value)), "must be a integer", None)
        r2 == AddWhen(r1, AndThen(f.min_value # None, PyLt(value, f.min_value)),
                      "is too small (minimum is %s)", f.min_value)
        r3 == AddWhen(r2, AndThen(f.max_value # None, PyGt(value, f.max_value)),
                      "is too big (maximum is %s)", f.max_value)
    IN IF value # None THEN r3 ELSE r0

ObjectIdField_validate(f, e, value) ==
    LET r0 == BaseField_validate(f, e, value)
    IN AddWhen(r0, B3(value # None /\ value.k # "oid"), "must be a valid Object Id", None)

StringField(length, min_length, max_length, pattern, required, default, choices) ==
    [BaseField("StringField", required, default, choices) EXCEPT
        !.length = length, !.min_length = min_length, !.max_length = max_length,
        !.pattern = pattern]

\* len(value) if value else None, as a step that can raise
ValLength(value) == IF Truthy(value) THEN PyLen(value) ELSE None

\* self.regex.match(value): the pattern is a literal, matched from the start
\* of the text; a value that is no text raises
RegexMatch(pattern, value) ==
    IF ~IsText(value) THEN "raise"
    ELSE B3(Len(value.s) >= Len(pattern.s)
            /\ SubSeq(value.s, 1, Len(pattern.s)) = pattern.s)

\* the exact, minimum and maximum length checks shared by StringField and
\* ArrayField; unit is "characters" or "items"
LengthChecks(f, r, n, unit) ==
    LET r1 == AddWhen(r, B3(Truthy(f.length) /\ ~PyEq(f.length, n)),
                      "is the wrong length (should be %s " \o unit \o ")", f.length)
        r2 == AddWhen(r1, AndThen(Truthy(f.min_length), PyLt(n, f.min_length)),
                      "is too short (minimum is %s " \o unit \o ")", f.min_length)
    IN AddWhen(r2, AndThen(Truthy(f.max_length), PyGt(n, f.max_length)),
               "is too long (maximum is %s " \o unit \o ")", f.max_length)

\* StringField.validate without the call of BaseField.validate
StringField_validate_nosuper(f, e, value) ==
    LET r0 == [e |-> e, ex |-> FALSE]
        n == ValLength(value)
        r1 == IF n.k = "raise" THEN [r0 EXCEPT !.ex = TRUE] ELSE r0
        r2 == AddWhen(r1, B3(f.required /\ value = PyText(<<>>)), "is required", None)
        r3 == LengthChecks(f, r2, n, "characters")
    IN AddWhen(r3, AndThen(f.pattern # None /\ Truthy(value),
                           Not3(RegexMatch(f.pattern, value))),
               "is in the wrong format", None)

StringField_validate(f, e, value) ==
    LET r0 == BaseField_validate(f, e, value)
        n == ValLength(value)
        r1 == IF n.k = "raise" THEN [r0 EXCEPT !.ex = TRUE] ELSE r0
        r2 == AddWhen(r1, B3(f.required /\ value = PyText(<<>>)), "is required", None)
        r3 == LengthChecks(f, r2, n, "characters")
    IN AddWhen(r3, AndThen(f.pattern # None /\ Truthy(value),
                           Not3(RegexMatch(f.pattern, value))),
               "is in the wrong format", None)

ArrayField(length, min_length, max_length, validate_item, required, default, choices) ==
    [BaseField("ArrayField", required, default, choices) EXCEPT
        !.length = length, !.min_length = min_length, !.max_length = max_length,
        !.validate_item = validate_item]

\* the validate_item callback of the model: it reports every item but "x"
RECURSIVE ValidateItems(_, _)
ValidateItems(r, items) ==
    IF items = <<>> THEN r
    ELSE ValidateItems(AddWhen(r, B3(Head(items) # "x"), "has an item that is not x", None),
                       Tail(items))

ArrayField_validate(f, e, value) ==
    LET r0 == BaseField_validate(f, e, value)
        r1 == AddWhen(r0, B3(value # None /\ value.k # "list"), "is not a list.", None)
        n == ValLength(value)
        r2 == IF n.k = "raise" /\ ~r1.ex THEN [r1 EXCEPT !.ex = TRUE] ELSE r1
        r3 == AddWhen(r2, B3(f.required /\ ~Truthy(value)), "is required", None)
        r4 == LengthChecks(f, r3, n, "items")
    IN IF ~(f.validate_item /\ value # None) \/ r4.ex THEN r4
       ELSE IF ~IsIterable(value) THEN [r4 EXCEPT !.ex = TRUE]
       ELSE ValidateItems(r4, value.s)

\* self.validate(instance, value) of the field's class
Validate(f, e, value) ==
    CASE f.variant = "BooleanField" -> BooleanField_validate(f, e, value)
      [] f.variant = "DateTimeField" -> DateTimeField_validate(f, e, value)
      [] f.variant = "FloatField" -> FloatField_validate(f, e, value)
      [] f.variant = "IntegerField" -> IntegerField_validate(f, e, value)
      [] f.variant = "ObjectIdField" -> ObjectIdField_validate(f, e, value)
      [] f.variant = "StringField" -> StringField_validate(f, e, value)
      [] f.variant = "ArrayField" -> ArrayField_validate(f, e, value)
      [] OTHER -> BaseField_validate(f, e, value)


(***************************************************************************)
(* Assignment and read.  The result of an operation is                     *)
(* [d: the slot, e: the messages, ex: raised, stored: the slot was         *)
(* written, ret: the value returned].                                      *)
(***************************************************************************)
Slot(v) == [has |-> TRUE, v |-> v]
NoSlot == [has |-> FALSE, v |-> None]

\* setattr(instance, attribute_name, value), then self.validate(instance, value)
BaseField__set__(f, d, e, value) ==
    LET r == Validate(f, e, value)
    IN [d |-> Slot(value), e |-> r.e, ex |-> r.ex, stored |-> TRUE, ret |-> None]

\* BaseField.__get__ that returns the default without storing it
BaseField__get__nostore(f, d, e) ==
    IF d.v = None /\ f.default # None
    THEN LET r == Validate(f, e, f.default)
         IN [d |-> d, e |-> r.e, ex |-> r.ex, stored |-> FALSE, ret |-> f.default]
    ELSE [d |-> d, e |-> e, ex |-> FALSE, stored |-> FALSE, ret |-> d.v]

\* the stored value; an unset field with a default reads as the default, which
\* is validated and, for a required field, stored
BaseField__get__(f, d, e) ==
    IF d.v = None /\ f.default # None
    THEN LET r == Validate(f, e, f.default)
         IN [d |-> IF f.required THEN Slot(f.default) ELSE d,
             e |-> r.e, ex |-> r.ex, stored |-> f.required, ret |-> f.default]
    ELSE [d |-> d, e |-> e, ex |-> FALSE, stored |-> FALSE, ret |-> d.v]

\* unicode text of a value: str(value) for a value that is no basestring
StringField_ensure_unicode_string(value) == IF IsText(value) THEN value.s ELSE PyStr(value)

\* the value StringField.__set__ hands on: stripped text, or None for a
\* falsy value
StringField_coerce(unstripped_value) ==
    IF Truthy(unstripped_value)
    THEN PyText(Strip(StringField_ensure_unicode_string(unstripped_value)))
    ELSE None

StringField__set__(f, d, e, unstripped_value) ==
    BaseField__set__(f, d, e, StringField_coerce(unstripped_value))

IsHex(c) == c \in {"0","1","2","3","4","5","6","7","8","9","a","b","c","d","e","f"}

\* ObjectId(raw): "ok", "InvalidId" or "TypeError"
ObjectId_parse(raw) ==
    IF raw.k = "oid" THEN "ok"
    ELSE IF ~IsText(raw) THEN "TypeError"
    ELSE IF Len(raw.s) = 24 /\ \A i \in 1..Len(raw.s) : IsHex(raw.s[i]) THEN "ok"
    ELSE "InvalidId"

ObjectIdField__set__(f, d, e, raw_value) ==
    IF raw_value = None THEN BaseField__set__(f, d, e, None)
    ELSE IF ObjectId_parse(raw_value) = "ok"
    THEN BaseField__set__(f, d, e, PyObjectId(raw_value.s))
    ELSE IF ObjectId_parse(raw_value) = "InvalidId"
    THEN BaseField__set__(f, d, e, raw_value)
    ELSE [d |-> d, e |-> e, ex |-> TRUE, stored |-> FALSE, ret |-> None]

\* an unset slot becomes [] on the first read
ArrayField__get__(f, d, e) ==
    LET d1 == IF d.has THEN d ELSE Slot(PyList(<<>>))
    IN [d |-> d1, e |-> e, ex |-> FALSE, stored |-> FALSE,
        ret |-> IF Truthy(d1.v) THEN d1.v ELSE PyList(<<>>)]

\* instance.f = value
FieldSet(f, d, e, value) ==
    CASE f.variant = "StringField" -> StringField__set__(f, d, e, value)
      [] f.variant = "ObjectIdField" -> ObjectIdField__set__(f, d, e, value)
      [] OTHER -> BaseField__set__(f, d, e, value)

\* instance.f
FieldGet(f, d, e) ==
    CASE f.variant = "ArrayField" -> ArrayField__get__(f, d, e)
      [] OTHER -> BaseField__get__(f, d, e)

(***************************************************************************)
(* The values and the field declarations the model draws from.             *)
(***************************************************************************)
Ints == {PyInt(n) : n \in -1..MaxNum}
Floats == {PyFloat(h) : h \in {1, 2 * MaxNum + 1}}
Texts == {PyText(s) : s \in {<<>>, <<" ", "a", " ">>, <<" ", " ">>, HexId}}
Lists == {PyList(s) : s \in {<<>>, <<"x", "b">>}}
Values == {None, PyBool(TRUE), PyDateTime} \cup Ints \cup Floats \cup Texts \cup Lists

Unset == V("unset", 0, <<>>)
Stale == V("stale", 0, <<>>)

Limits == {None, PyInt(0), PyFloat(3)}
Ranges == {<<lo, hi>> \in Limits \X Limits :
              lo = None \/ hi = None \/ Halves(lo) <= Halves(hi)}
Lengths == {<<None, None, None>>, <<PyInt(2), None, None>>, <<None, PyInt(1), PyInt(1)>>}
Options == {<<FALSE, FALSE>>, <<TRUE, FALSE>>, <<FALSE, TRUE>>}

Fields ==
    {BaseField("BaseField", r, d, c) :
        r \in BOOLEAN, d \in {None, PyInt(1)}, c \in {{}, {PyInt(1), PyText(<<"a">>)}}}
    \cup {BaseField(v, r, None, {}) :
            v \in {"BooleanField", "DateTimeField", "ObjectIdField"}, r \in BOOLEAN}
    \cup {FloatField(rg[1], rg[2], FALSE, None, {}) : rg \in Ranges}
    \cup {IntegerField(rg[1], rg[2], FALSE, None, {}) : rg \in Ranges}
    \cup {FloatField(None, None, TRUE, None, {}), IntegerField(None, None, TRUE, None, {})}
    \cup {StringField(l[1], l[2], l[3], IF o[1] THEN PyText(<<"a">>) ELSE None, o[2], None, {}) :
            l \in Lengths, o \in Options}
    \cup {ArrayField(l[1], l[2], l[3], o[1], o[2], None, {}) :
            l \in Lengths, o \in Options}

Instances == {"A", "B"}

(***************************************************************************)
(* One document instance with one declared field.                          *)
(***************************************************************************)
InitOthers ==
    /\ owned = None /\ heap = <<>> /\ ldict = [i \in Instances |-> 0]
    /\ got = [i \in Instances |-> Stale] /\ firstGot = [i \in Instances |-> Stale]
    /\ cleared = FALSE /\ setInst = "A"

Init ==
    /\ field \in Fields
    /\ idict = NoSlot
    /\ errors = <<>>
    /\ lastOp = "init" /\ lastArg = None /\ lastInst = "A" /\ ret = None
    /\ raised = FALSE /\ validated = FALSE /\ lastSet = Unset
    /\ InitOthers

OthersUnchanged ==
    UNCHANGED <<owned, heap, ldict, got, firstGot, cleared, lastInst, setInst>>

\* t.f = v
Set(v) ==
    LET r == FieldSet(field, idict, errors, v)
    IN /\ idict' = r.d /\ errors' = r.e /\ raised' = r.ex
       /\ lastOp' = "set" /\ lastArg' = v
       /\ lastSet' = IF r.stored THEN v ELSE lastSet
       /\ ret' = None
       /\ UNCHANGED <<field, validated>>
       /\ OthersUnchanged

\* t.f
Get ==
    LET r == FieldGet(field, idict, errors)
    IN /\ idict' = r.d /\ errors' = r.e /\ raised' = r.ex /\ ret' = r.ret
       /\ lastOp' = "get" /\ lastArg' = None
       /\ UNCHANGED <<field, validated, lastSet>>
       /\ OthersUnchanged

\* field.validate(t, v), the explicit validation of a value
ValidateCall(v) ==
    LET r == Validate(field, errors, v)
    IN /\ errors' = r.e /\ raised' = r.ex
       /\ lastOp' = "validate" /\ lastArg' = v /\ validated' = TRUE
       /\ ret' = None
       /\ UNCHANGED <<field, idict, lastSet>>
       /\ OthersUnchanged

Next ==
    \/ \E v \in Values : Set(v)
    \/ Get
    \/ \E v \in Values : ValidateCall(v)

Spec == Init /\ [][Next]_vars


(***************************************************************************)
(* Properties of validation, assignment and read.                          *)
(***************************************************************************)
RECURSIVE Count(_, _)
Count(e, m) ==
    IF e = <<>> THEN 0 ELSE (IF Head(e).m = m THEN 1 ELSE 0) + Count(Tail(e), m)

Has(e, msg) == \E i \in 1..Len(e) : e[i] = msg

\* the last assignment was refused by the coercion before anything was stored
Rejected ==
    /\ lastOp = "set" /\ field.variant = "ObjectIdField"
    /\ lastArg # None /\ ObjectId_parse(lastArg) = "TypeError"

\* the stored value is the one an explicit validate has just been given
ValidatedStored == lastOp = "validate" /\ ~raised /\ idict.has /\ lastArg = idict.v

\* C1: for every field variant declared required, assigning None (or the
\* empty string, for StringField) and then validating leaves exactly one
\* "is required" message; assigning a non-empty valid value and validating
\* leaves none
C1_RequiredExactlyOnce ==
    (field.required /\ ValidatedStored) =>
        /\ (idict.v = None /\ lastSet \in {None, PyText(<<>>)})
              => Count(errors, "is required") = 1
        /\ Truthy(idict.v) => Count(errors, "is required") = 0

\* C2: validate(instance, value) never raises, whatever the value
C2_ValidateNeverRaises == lastOp = "validate" => ~raised

IsDefaultRequired ==
    /\ field.variant = "BaseField" /\ field.required
    /\ field.default # None /\ field.choices = {}

\* C6: for a BaseField with default d and required, a read while the field is
\* unset (never assigned, or holding None) returns d, stores d and leaves no
\* message; after an assignment of a value v that is not None every read
\* returns v
C6_DefaultOnRead ==
    /\ [](IsDefaultRequired /\ lastOp = "get" /\ lastSet \notin {Unset, None}
            => ret = lastSet)
    /\ [][(IsDefaultRequired /\ lastOp' = "get") =>
            IF idict.v = None
            THEN ret' = field.default /\ idict' = Slot(field.default) /\ errors' = <<>>
            ELSE ret' = idict.v /\ idict' = idict]_vars

C6_Witness ==
    /\ IsDefaultRequired /\ lastOp = "get" /\ lastSet = None
    /\ ret = field.default /\ idict = Slot(field.default) /\ errors = <<>>

IsRanged ==
    /\ field.variant \in {"FloatField", "IntegerField"}
    /\ field.min_value # None /\ field.max_value # None

\* the value just validated, explicitly or by an assignment
JustValidated == lastOp = "validate" \/ (lastOp = "set" /\ ~Rejected)
TheValue == IF lastOp = "validate" THEN lastArg ELSE idict.v

Accepted(f, v) == IF f.variant = "FloatField" THEN IsNumber(v) ELSE IsInt(v)

TooSmall == Msg("is too small (minimum is %s)", field.min_value)
TooBig == Msg("is too big (maximum is %s)", field.max_value)

\* C8: FloatField and IntegerField with min_value lo and max_value hi, on a
\* number v of the accepted kind: "is too small" is added exactly when
\* v < lo, "is too big" exactly when v > hi, and nothing when lo <= v <= hi;
\* None adds no message
C8_RangeMessages ==
    (IsRanged /\ JustValidated) =>
        /\ Accepted(field, TheValue) =>
              /\ Has(errors, TooSmall) <=> Halves(TheValue) < Halves(field.min_value)
              /\ Has(errors, TooBig) <=> Halves(TheValue) > Halves(field.max_value)
              /\ Count(errors, TooSmall.m) <= 1 /\ Count(errors, TooBig.m) <= 1
              /\ (Halves(field.min_value) <= Halves(TheValue)
                    /\ Halves(TheValue) <= Halves(field.max_value)) => errors = <<>>
              /\ ~raised
        /\ TheValue = None => errors = <<>> /\ ~raised

C8_Witness ==
    /\ IsRanged /\ lastOp = "validate" /\ field.variant = "FloatField"
    /\ lastArg = PyInt(-1) /\ field.min_value = PyFloat(0)
    /\ errors = <<TooSmall>>


(***************************************************************************)
(* Embedded documents.  An object of the heap is an EmbeddedDocument of    *)
(* class Address, with a BaseField a and a StringField b, or an            *)
(* EmbeddedList container.  A document handed to set is PyDoc(i), the i-th *)
(* entry of SourceDocs: an EmbeddedDocument whose fields a and b hold the  *)
(* values listed.                                                          *)
(***************************************************************************)
Obj(cls, a, b, items) == [cls |-> cls, a |-> a, b |-> b, items |-> items]

\* doc(): a new instance, every field unset
NewAddress == Obj("Address", None, None, <<>>)

SourceDocs == <<[a |-> PyInt(1), b |-> PyText(<<" ", "a", " ">>)],
                [a |-> None, b |-> PyInt(1)],
                [a |-> PyInt(0), b |-> PyText(<<>>)]>>

Docs == {PyDoc(i) : i \in 1..Len(SourceDocs)}

IsEmbeddedDocument(v) == v.k = "doc"

\* setattr(target, "a", v) and setattr(target, "b", v) on an Address: each goes
\* through the set of the field declared under that name, a BaseField storing
\* v as it is and a StringField storing the coerced text (neither field has a
\* constraint, so the Address's own Errors stay empty and are left out)
Address_setattr(o, name, v) ==
    IF name = "a" THEN [o EXCEPT !.a = v] ELSE [o EXCEPT !.b = StringField_coerce(v)]

\* EmbeddedField(name, doc, default=default): doc() is constructed and owned
\* unless a default is given
EmbeddedField__init__(default, h) ==
    LET h1 == Append(h, NewAddress)
    IN [value |-> IF Truthy(default) THEN default ELSE Ref(Len(h1)), heap |-> h1]

\* EmbeddedField.__get__ that hands every reader an instance of its own
EmbeddedField__get__clone(o, h, inst) ==
    IF o.k = "ref" THEN [ret |-> Ref(Len(h) + 1), heap |-> Append(h, h[o.n])]
    ELSE [ret |-> o, heap |-> h]

\* __get__: self.value, whatever the instance
EmbeddedField__get__(o, h, inst) == [ret |-> o, heap |-> h]

\* EmbeddedField.__set__ that constructs a new instance for every document
EmbeddedField__set__realloc(o, h, value) ==
    IF Truthy(value)
    THEN IF ~IsEmbeddedDocument(value)
         THEN [value |-> o, heap |-> h, ex |-> TRUE]
         ELSE LET h1 == Append(h, NewAddress)
                  o1 == Ref(Len(h1))
                  src == SourceDocs[value.n]
                  t1 == Address_setattr(h1[o1.n], "a", src.a)
                  t2 == Address_setattr(t1, "b", src.b)
              IN [value |-> o1, heap |-> [h1 EXCEPT ![o1.n] = t2], ex |-> FALSE]
    ELSE [value |-> value, heap |-> h, ex |-> FALSE]

\* EmbeddedField.__set__ that leaves the owned instance alone on a falsy value
EmbeddedField__set__keep(o, h, value) ==
    IF Truthy(value)
    THEN IF ~IsEmbeddedDocument(value)
         THEN [value |-> o, heap |-> h, ex |-> TRUE]
         ELSE LET h1 == IF ~Truthy(o) THEN Append(h, NewAddress) ELSE h
                  o1 == IF ~Truthy(o) THEN Ref(Len(h1)) ELSE o
                  src == SourceDocs[value.n]
                  t1 == Address_setattr(h1[o1.n], "a", src.a)
                  t2 == Address_setattr(t1, "b", src.b)
              IN [value |-> o1, heap |-> [h1 EXCEPT ![o1.n] = t2], ex |-> FALSE]
    ELSE [value |-> o, heap |-> h, ex |-> FALSE]

\* __set__: [value, heap, ex]
EmbeddedField__set__(o, h, value) ==
    IF Truthy(value)
    THEN IF ~IsEmbeddedDocument(value)
         THEN [value |-> o, heap |-> h, ex |-> TRUE]
         ELSE LET h1 == IF ~Truthy(o) THEN Append(h, NewAddress) ELSE h
                  o1 == IF ~Truthy(o) THEN Ref(Len(h1)) ELSE o
                  src == SourceDocs[value.n]
                  t1 == Address_setattr(h1[o1.n], "a", src.a)
                  t2 == Address_setattr(t1, "b", src.b)
              IN [value |-> o1, heap |-> [h1 EXCEPT ![o1.n] = t2], ex |-> FALSE]
    ELSE [value |-> value, heap |-> h, ex |-> FALSE]

EmbValues == {None, PyInt(0), PyInt(1)} \cup Docs

\* the objects made before the field is declared: none, or the Address
\* handed to the constructor as its default
Defaults == {<<>>, <<Obj("Address", PyInt(2), None, <<>>)>>}

DefaultOf(h) == IF h = <<>> THEN None ELSE Ref(1)

InitEmb ==
    /\ heap \in {EmbeddedField__init__(DefaultOf(h), h).heap : h \in Defaults}
    /\ field = BaseField("EmbeddedField", FALSE, IF Len(heap) = 1 THEN None ELSE Ref(1), {})
    /\ owned = EmbeddedField__init__(field.default, SubSeq(heap, 1, Len(heap) - 1)).value
    /\ idict = NoSlot /\ errors = <<>> /\ validated = FALSE
    /\ lastOp = "init" /\ lastArg = None /\ lastInst = "A" /\ ret = None
    /\ raised = FALSE /\ lastSet = Unset /\ setInst = "A" /\ cleared = FALSE
    /\ ldict = [i \in Instances |-> 0]
    /\ got = [i \in Instances |-> Stale] /\ firstGot = [i \in Instances |-> Stale]

\* the instance owned right after construction
Constructed == IF Truthy(field.default) THEN field.default ELSE Ref(1)

Allocates(o, value) == Truthy(value) /\ IsEmbeddedDocument(value) /\ ~Truthy(o)

\* i.f = v
EmbSet(i, v) ==
    LET r == EmbeddedField__set__(owned, heap, v)
    IN /\ Allocates(owned, v) => Len(heap) < 2 + MaxObjects
       /\ owned' = r.value /\ heap' = r.heap /\ raised' = r.ex
       /\ lastOp' = "set" /\ lastArg' = v /\ lastInst' = i /\ ret' = None
       /\ lastSet' = IF r.ex THEN lastSet ELSE v
       /\ setInst' = IF r.ex THEN setInst ELSE i
       /\ cleared' = (cleared \/ (~r.ex /\ ~Truthy(v)))
       /\ got' = IF r.ex THEN got ELSE [j \in Instances |-> Stale]
       /\ UNCHANGED <<field, idict, errors, validated, ldict, firstGot>>

\* i.f
EmbGet(i) ==
    LET r == EmbeddedField__get__(owned, heap, i)
    IN /\ ret' = r.ret /\ heap' = r.heap /\ got' = [got EXCEPT ![i] = r.ret]
       /\ lastOp' = "get" /\ lastArg' = None /\ lastInst' = i /\ raised' = FALSE
       /\ UNCHANGED <<field, idict, errors, validated, ldict, firstGot, owned,
                      lastSet, setInst, cleared>>

NextEmb ==
    \/ \E i \in Instances, v \in EmbValues : EmbSet(i, v)
    \/ \E i \in Instances : EmbGet(i)

SpecEmb == InitEmb /\ [][NextEmb]_vars


(***************************************************************************)
(* Properties of EmbeddedField.                                            *)
(***************************************************************************)
IsAddress(v) == v.k = "ref" /\ v.n \in 1..Len(heap) /\ heap[v.n].cls = "Address"

\* the owned object holds the fields of the source document, each as the
\* field of that name stores it (a verbatim, b as stripped text or None)
HoldsCopyOf(v, doc) ==
    /\ IsAddress(v)
    /\ heap[v.n].a = SourceDocs[doc.n].a
    /\ heap[v.n].b = (IF Truthy(SourceDocs[doc.n].b)
                      THEN PyText(Strip(IF IsText(SourceDocs[doc.n].b)
                                        THEN SourceDocs[doc.n].b.s
                                        ELSE PyStr(SourceDocs[doc.n].b)))
                      ELSE None)

\* C3 as stated: after any sequence of set calls the owned instance is the
\* object owned right after construction
C3_OwnedNeverReplaced == owned = Constructed

\* C3 as amended: set with an embedded document while an instance is owned
\* copies each declared field into the owned instance through that field's
\* own set and keeps the owned object, so the object owned after construction
\* stays owned until a falsy value is assigned; set with a falsy value
\* replaces the owned reference by that value, and the next set with an
\* embedded document then owns a new instance
C3_OwnedUntilCleared ==
    /\ ~cleared => owned = Constructed
    /\ (lastOp = "set" /\ ~raised /\ IsEmbeddedDocument(lastArg)) => HoldsCopyOf(owned, lastArg)
    /\ (lastOp = "set" /\ ~raised /\ ~Truthy(lastArg)) => owned = lastArg
    /\ (cleared /\ Truthy(owned)) => IsAddress(owned) /\ owned.n > Constructed.n

C3_Witness ==
    /\ ~cleared /\ lastOp = "set" /\ ~raised /\ lastArg = PyDoc(1)
    /\ lastSet = PyDoc(1) /\ owned = Constructed
    /\ heap[owned.n].a = PyInt(1) /\ heap[owned.n].b = PyText(<<"a">>)

\* C4 as stated: get always returns a non-null instance of the declared
\* embedded-document type
C4_GetNeverNull == lastOp = "get" => IsAddress(ret)

\* C4 as amended: get returns a non-null instance of the declared type
\* unless the last completed set assigned a falsy value; then get returns
\* that falsy value (None after set with None)
C4_GetNullOnlyAfterFalsySet ==
    lastOp = "get" =>
        IF lastSet # Unset /\ ~Truthy(lastSet) THEN ret = lastSet ELSE IsAddress(ret)

C4_Witness == lastOp = "get" /\ lastSet = None /\ ret = None /\ cleared

\* what a get returns reflects the last completed set
Reflects(v, assigned) ==
    IF Truthy(assigned) THEN HoldsCopyOf(v, assigned) ELSE v = assigned

\* C10: the owned instance is held per descriptor: get through any two
\* document instances returns the same object, and what a get through one
\* instance returns reflects the last set made through the other
C10_SharedAcrossInstances ==
    /\ (got["A"] # Stale /\ got["B"] # Stale) => got["A"] = got["B"]
    /\ \A i \in Instances :
          (got[i] # Stale /\ lastSet # Unset /\ setInst # i) => Reflects(got[i], lastSet)

C10_Witness ==
    /\ got["A"] # Stale /\ got["B"] = got["A"] /\ lastOp = "get" /\ lastInst = "B"
    /\ setInst = "A" /\ lastSet = PyDoc(1) /\ HoldsCopyOf(ret, PyDoc(1))


(***************************************************************************)
(* ListField: a container per document instance, kept in the instance's    *)
(* __dict__ (0 stands for an absent slot).                                 *)
(***************************************************************************)
\* EmbeddedList(name, type_): an empty container
NewEmbeddedList == Obj("EmbeddedList", None, None, <<>>)

\* ListField.__get__ without the test for an existing container
ListField__get__always_new(slot, h) ==
    [slot |-> Len(h) + 1, heap |-> Append(h, NewEmbeddedList), ret |-> Ref(Len(h) + 1)]

\* __get__: [slot, heap, ret]
ListField__get__(slot, h) ==
    LET h1 == IF slot = 0 THEN Append(h, NewEmbeddedList) ELSE h
        slot1 == IF slot = 0 THEN Len(h1) ELSE slot
    IN [slot |-> slot1, heap |-> h1, ret |-> Ref(slot1)]

\* __set__: pass
ListField__set__(slot, h, value) == [slot |-> slot, heap |-> h]

\* EmbeddedList.append(value): only instances of the declared type are taken
EmbeddedList_append(o, value) ==
    IF IsEmbeddedDocument(value)
    THEN [obj |-> [o EXCEPT !.items = Append(@, value)], ex |-> FALSE]
    ELSE [obj |-> o, ex |-> TRUE]

InitList ==
    /\ field = BaseField("ListField", FALSE, None, {})
    /\ idict = NoSlot /\ errors = <<>> /\ validated = FALSE
    /\ lastOp = "init" /\ lastArg = None /\ lastInst = "A" /\ ret = None
    /\ raised = FALSE /\ lastSet = Unset /\ setInst = "A" /\ cleared = FALSE
    /\ owned = None /\ heap = <<>>
    /\ ldict = [i \in Instances |-> 0]
    /\ got = [i \in Instances |-> Stale] /\ firstGot = [i \in Instances |-> Stale]

ListUnchanged == UNCHANGED <<field, idict, errors, validated, owned, cleared>>

\* i.f
ListGet(i) ==
    LET r == ListField__get__(ldict[i], heap)
    IN /\ ldict' = [ldict EXCEPT ![i] = r.slot] /\ heap' = r.heap /\ ret' = r.ret
       /\ got' = [got EXCEPT ![i] = r.ret]
       /\ firstGot' = IF firstGot[i] = Stale THEN [firstGot EXCEPT ![i] = r.ret] ELSE firstGot
       /\ lastOp' = "get" /\ lastArg' = None /\ lastInst' = i /\ raised' = FALSE
       /\ UNCHANGED <<lastSet, setInst>>
       /\ ListUnchanged

\* i.f = v
ListSet(i, v) ==
    LET r == ListField__set__(ldict[i], heap, v)
    IN /\ ldict' = [ldict EXCEPT ![i] = r.slot] /\ heap' = r.heap
       /\ lastOp' = "set" /\ lastArg' = v /\ lastInst' = i /\ raised' = FALSE
       /\ lastSet' = v /\ setInst' = i /\ ret' = None
       /\ UNCHANGED <<got, firstGot>>
       /\ ListUnchanged

\* i.f.append(v): the read of i.f, then the container's append
ListAppend(i, v) ==
    LET g == ListField__get__(ldict[i], heap)
        a == EmbeddedList_append(g.heap[g.slot], v)
    IN /\ Len(g.heap[g.slot].items) < MaxItems
       /\ ldict' = [ldict EXCEPT ![i] = g.slot]
       /\ heap' = [g.heap EXCEPT ![g.slot] = a.obj]
       /\ raised' = a.ex /\ ret' = g.ret
       /\ got' = [got EXCEPT ![i] = g.ret]
       /\ firstGot' = IF firstGot[i] = Stale THEN [firstGot EXCEPT ![i] = g.ret] ELSE firstGot
       /\ lastOp' = "append" /\ lastArg' = v /\ lastInst' = i
       /\ UNCHANGED <<lastSet, setInst>>
       /\ ListUnchanged

ListValues == {None, PyInt(1), PyDoc(1), PyDoc(2)}

NextList ==
    \/ \E i \in Instances : ListGet(i)
    \/ \E i \in Instances, v \in ListValues : ListSet(i, v)
    \/ \E i \in Instances, v \in ListValues : ListAppend(i, v)

SpecList == InitList /\ [][NextList]_vars

\* C9: the first get on an instance creates its container, every later get
\* returns that container, set changes neither the slot nor any container,
\* the containers of two instances are distinct, and an append through one
\* instance leaves the other instance's container as it was
C9_ContainerPerInstance ==
    /\ [](/\ (ldict["A"] # 0 /\ ldict["B"] # 0) => ldict["A"] # ldict["B"]
          /\ \A i \in Instances :
                /\ got[i] # Stale => got[i] = Ref(ldict[i]) /\ got[i] = firstGot[i]
                /\ ldict[i] # 0 => heap[ldict[i]].cls = "EmbeddedList")
    /\ [][/\ (lastOp' = "get" /\ ldict[lastInst'] = 0) =>
                /\ heap' = Append(heap, NewEmbeddedList)
                /\ ret' = Ref(Len(heap'))
          /\ (lastOp' = "get" /\ ldict[lastInst'] # 0) => heap' = heap
          /\ lastOp' = "set" => ldict' = ldict /\ heap' = heap
          /\ lastOp' = "append" =>
                \A j \in Instances \ {lastInst'} :
                    ldict[j] # 0 => ldict'[j] = ldict[j] /\ heap'[ldict[j]] = heap[ldict[j]]]_vars

C9_Witness ==
    /\ ldict["A"] # 0 /\ ldict["B"] # 0 /\ lastOp = "set" /\ lastArg = PyDoc(1)
    /\ heap[ldict["A"]].items = <<PyDoc(1)>> /\ heap[ldict["B"]].items = <<>>
    /\ got["A"] = firstGot["A"] /\ got["A"] # Stale

====
